---- MODULE Spec2Model ----
(***************************************************************************)
(* Model of the chronver crate: parsing, formatting, ordering and          *)
(* incrementing of chronologic versions (src/src/lib.rs, src/src/error.rs).*)
(*                                                                         *)
(* A string is a sequence of characters; a character is a one-character    *)
(* TLA+ string, or the token "U+00E9" for the two-byte character e-acute.  *)
(* A u32 is a record [hi, lo] of two 16-bit halves, so that u32::MAX is    *)
(* representable and the arithmetic keeps its width.                       *)
(***************************************************************************)
EXTENDS Integers, Sequences, FiniteSets, TLC

VARIABLES
    value,   \* the input string of the parse in hand
    op,      \* the operation that acted last
    result,  \* what the last parse or constructor returned
    shown,   \* the text Display produced for the parsed Version
    back,    \* what parsing `shown` returned
    today,   \* the last reading of the clock
    self,    \* the receiver of the last increment or of the last display of a Kind
    new,     \* the Version the last default or increment returned
    calls,   \* the number of increments so far
    list,    \* three Versions to compare and sort
    sorted   \* the list after sort

vars == <<value, op, result, shown, back, today, self, new, calls, list, sorted>>

(***************************************************************************)
(* Characters and strings (std::str).                                      *)
(***************************************************************************)
DigitChars == <<"0", "1", "2", "3", "4", "5", "6", "7", "8", "9">>

IsAsciiDigit(c) == \E i \in 1..10 : DigitChars[i] = c

DigitValue(c) == (CHOOSE i \in 1..10 : DigitChars[i] = c) - 1

DigitChar(d) == DigitChars[d + 1]

\* Unicode scalar value of the characters the model uses.
CodePoint(c) ==
    CASE c = "+" -> 43
      [] c = "-" -> 45
      [] c = "." -> 46
      [] IsAsciiDigit(c) -> 48 + DigitValue(c)
      [] c = "B" -> 66
      [] c = "a" -> 97
      [] c = "b" -> 98
      [] c = "e" -> 101
      [] c = "k" -> 107
      [] c = "r" -> 114
      [] c = "U+00E9" -> 233

\* Number of bytes of the character's UTF-8 encoding.
Utf8Len(c) == IF CodePoint(c) < 128 THEN 1 ELSE IF CodePoint(c) < 2048 THEN 2 ELSE 3

\* str::is_ascii: every byte is below 128.
IsAscii(s) == \A i \in 1..Len(s) : CodePoint(s[i]) < 128

RECURSIVE ByteLen(_)
\* str::len: the length in bytes.
ByteLen(s) == IF s = <<>> THEN 0 ELSE Utf8Len(Head(s)) + ByteLen(Tail(s))

\* str::is_char_boundary.
IsCharBoundary(s, mid) == \E k \in 0..Len(s) : ByteLen(SubSeq(s, 1, k)) = mid

\* str::split_at: panics unless mid is a character boundary of s.
SplitAt(s, mid) ==
    IF IsCharBoundary(s, mid)
    THEN LET k == CHOOSE k \in 0..Len(s) : ByteLen(SubSeq(s, 1, k)) = mid
         IN  [panic |-> FALSE, head |-> SubSeq(s, 1, k), tail |-> SubSeq(s, k + 1, Len(s))]
    ELSE [panic |-> TRUE]

\* str::find(char): index of the first occurrence, 0 when there is none.
FindChar(s, c) ==
    IF \E i \in 1..Len(s) : s[i] = c
    THEN CHOOSE i \in 1..Len(s) : s[i] = c /\ \A j \in 1..(i - 1) : s[j] # c
    ELSE 0

\* str::split_once(char).
SplitOnce(s, c) ==
    LET i == FindChar(s, c)
    IN  IF i = 0
        THEN [some |-> FALSE]
        ELSE [some |-> TRUE, head |-> SubSeq(s, 1, i - 1), tail |-> SubSeq(s, i + 1, Len(s))]

\* str::strip_prefix(char).
StripPrefix(s, c) ==
    IF s # <<>> /\ Head(s) = c THEN [some |-> TRUE, rest |-> Tail(s)] ELSE [some |-> FALSE]

\* Ordering of two strings: lexicographic on the code points (the bytes, for ASCII).
RECURSIVE StrCmp(_, _)
StrCmp(s, t) ==
    IF s = <<>> /\ t = <<>> THEN "Equal"
    ELSE IF s = <<>> THEN "Less"
    ELSE IF t = <<>> THEN "Greater"
    ELSE IF CodePoint(Head(s)) < CodePoint(Head(t)) THEN "Less"
    ELSE IF CodePoint(Head(s)) > CodePoint(Head(t)) THEN "Greater"
    ELSE StrCmp(Tail(s), Tail(t))

(***************************************************************************)
(* Integers (core::num): decimal parsing and formatting of u8, i32, u32.   *)
(***************************************************************************)
U8_MAX == 255

I32_MAX == 2147483647

I32_MIN == (-I32_MAX) - 1

\* One 16-bit half of a u32 ranges over 0..(HALF - 1).
HALF == 65536

U32(n) == [hi |-> 0, lo |-> n]

U32_MAX == [hi |-> HALF - 1, lo |-> HALF - 1]

U32Cmp(a, b) ==
    IF a.hi < b.hi THEN "Less"
    ELSE IF a.hi > b.hi THEN "Greater"
    ELSE IF a.lo < b.lo THEN "Less"
    ELSE IF a.lo > b.lo THEN "Greater"
    ELSE "Equal"

\* u32::checked_add with a small right-hand side: None on overflow.
U32CheckedAdd(a, n) ==
    LET lo2 == a.lo + n
        hi2 == a.hi + (lo2 \div HALF)
    IN  IF hi2 >= HALF THEN [some |-> FALSE] ELSE [some |-> TRUE, v |-> [hi |-> hi2, lo |-> lo2 % HALF]]

IntOk(n) == [tag |-> "Ok", v |-> n]

IntErr(kind) == [tag |-> "Err", kind |-> kind]

RECURSIVE IntDigits(_, _, _, _, _)
\* The digit loop of from_str_radix for a type with range lo..hi.
IntDigits(digits, acc, positive, lo, hi) ==
    IF digits = <<>> THEN IntOk(acc)
    ELSE IF ~IsAsciiDigit(Head(digits)) THEN IntErr("InvalidDigit")
    ELSE LET d == DigitValue(Head(digits))
         IN  IF positive
             THEN IF acc > (hi - d) \div 10
                  THEN IntErr("PosOverflow")
                  ELSE IntDigits(Tail(digits), acc * 10 + d, positive, lo, hi)
             ELSE IF acc < (lo + d + 9) \div 10
                  THEN IntErr("NegOverflow")
                  ELSE IntDigits(Tail(digits), acc * 10 - d, positive, lo, hi)

\* <int as FromStr>::from_str: optional sign ('-' for signed types only), then digits.
IntFromStr(src, signed, lo, hi) ==
    IF src = <<>> THEN IntErr("Empty")
    ELSE IF src = <<"+">> \/ src = <<"-">> THEN IntErr("InvalidDigit")
    ELSE IF Head(src) = "+" THEN IntDigits(Tail(src), 0, TRUE, lo, hi)
    ELSE IF Head(src) = "-" /\ signed THEN IntDigits(Tail(src), 0, FALSE, lo, hi)
    ELSE IntDigits(src, 0, TRUE, lo, hi)

ParseU8(src) == IntFromStr(src, FALSE, 0, U8_MAX)

ParseI32(src) == IntFromStr(src, TRUE, I32_MIN, I32_MAX)

RECURSIVE U32Digits(_, _)
\* The digit loop of from_str_radix for u32, on the two halves.
U32Digits(digits, acc) ==
    IF digits = <<>> THEN IntOk(acc)
    ELSE IF ~IsAsciiDigit(Head(digits)) THEN IntErr("InvalidDigit")
    ELSE LET lo2 == acc.lo * 10 + DigitValue(Head(digits))
             hi2 == acc.hi * 10 + (lo2 \div HALF)
         IN  IF hi2 >= HALF
             THEN IntErr("PosOverflow")
             ELSE U32Digits(Tail(digits), [hi |-> hi2, lo |-> lo2 % HALF])

ParseU32(src) ==
    IF src = <<>> THEN IntErr("Empty")
    ELSE IF src = <<"+">> \/ src = <<"-">> THEN IntErr("InvalidDigit")
    ELSE IF Head(src) = "+" THEN U32Digits(Tail(src), U32(0))
    ELSE U32Digits(src, U32(0))

RECURSIVE NatToString(_)
\* Display of a non-negative integer: decimal digits, no padding.
NatToString(n) ==
    IF n < 10 THEN <<DigitChar(n)>> ELSE NatToString(n \div 10) \o <<DigitChar(n % 10)>>

RECURSIVE U32ToString(_)
\* Display of a u32, by long division of the two halves by ten.
U32ToString(a) ==
    LET t == (a.hi % 10) * HALF + a.lo
        q == [hi |-> a.hi \div 10, lo |-> t \div 10]
    IN  IF a.hi = 0 /\ a.lo < 10
        THEN <<DigitChar(a.lo)>>
        ELSE U32ToString(q) \o <<DigitChar(t % 10)>>

RECURSIVE ZeroPad(_, _)
ZeroPad(s, width) == IF Len(s) >= width THEN s ELSE ZeroPad(<<"0">> \o s, width)

\* format!("{:0width$}", n): sign-aware zero padding, the sign counts in the width.
FmtPadded(n, width) ==
    IF n < 0
    THEN <<"-">> \o ZeroPad(NatToString(-n), width - 1)
    ELSE ZeroPad(NatToString(n), width)

(***************************************************************************)
(* Calendar dates (time::Date, as used by Date).                           *)
(***************************************************************************)
MIN_YEAR == -9999

MAX_YEAR == 9999

IsLeapYear(year) == year % 4 = 0 /\ (year % 100 # 0 \/ year % 400 = 0)

DaysInMonth(year, month) ==
    IF month \in {4, 6, 9, 11} THEN 30
    ELSE IF month = 2 THEN (IF IsLeapYear(year) THEN 29 ELSE 28)
    ELSE 31

\* Month::try_from(u8) that counts the months from zero.
MonthTryFromZeroBased(n) ==
    IF n >= 0 /\ n <= 12 THEN [tag |-> "Ok", v |-> n] ELSE [tag |-> "Err", name |-> "month"]

\* Month::try_from(u8).
MonthTryFrom(n) ==
    IF n >= 1 /\ n <= 12 THEN [tag |-> "Ok", v |-> n] ELSE [tag |-> "Err", name |-> "month"]

\* time::Date::from_calendar_date.
FromCalendarDate(year, month, day) ==
    IF year < MIN_YEAR \/ year > MAX_YEAR THEN [tag |-> "Err", name |-> "year"]
    ELSE IF day < 1 \/ day > DaysInMonth(year, month) THEN [tag |-> "Err", name |-> "day"]
    ELSE [tag |-> "Ok", v |-> [year |-> year, month |-> month, day |-> day]]

IntCmp(a, b) == IF a < b THEN "Less" ELSE IF a > b THEN "Greater" ELSE "Equal"

\* Then(o, next): Ordering::then, the lexicographic step of a derived Ord.
Then(o, next) == IF o = "Equal" THEN next ELSE o

\* Ord for Date (derived on time::Date): year, then day of the year.
DateCmp(a, b) == Then(IntCmp(a.year, b.year), Then(IntCmp(a.month, b.month), IntCmp(a.day, b.day)))

DateOk(d) == [tag |-> "Ok", date |-> d]

DateErr(e) == [tag |-> "Err", err |-> e]

\* The construction of the date from the three groups (the call's arguments are
\* evaluated in order: year, month, day).
DateFromGroups(year, month, day) ==
    LET y == ParseI32(year)
        m == ParseU8(month)
        mm == MonthTryFrom(m.v)
        d == ParseU8(day)
        date == FromCalendarDate(y.v, mm.v, d.v)
    IN  IF y.tag = "Err" THEN DateErr([e |-> "InvalidInt", cause |-> y.kind])
        ELSE IF m.tag = "Err" THEN DateErr([e |-> "InvalidInt", cause |-> m.kind])
        ELSE IF mm.tag = "Err" THEN DateErr([e |-> "InvalidMonth", cause |-> mm.name])
        ELSE IF d.tag = "Err" THEN DateErr([e |-> "InvalidInt", cause |-> d.kind])
        ELSE IF date.tag = "Err" THEN DateErr([e |-> "InvalidDate", cause |-> date.name])
        ELSE DateOk(date.v)

\* impl TryFrom<&str> for Date.
DateTryFrom(s) ==
    LET first == SplitOnce(s, ".")
        second == SplitOnce(first.tail, ".")
    IN  IF ~first.some THEN DateErr([e |-> "MissingMonthSeparator"])
        ELSE IF ~second.some THEN DateErr([e |-> "MissingDaySeparator"])
        ELSE DateFromGroups(first.head, second.head, second.tail)

\* Display for Date without the zero padding: "{}.{}.{}".
DateFmtUnpadded(d) == FmtPadded(d.year, 1) \o <<".">> \o FmtPadded(d.month, 1) \o <<".">> \o FmtPadded(d.day, 1)

\* impl Display for Date: "{:04}.{:02}.{:02}".
DateFmt(d) == FmtPadded(d.year, 4) \o <<".">> \o FmtPadded(d.month, 2) \o <<".">> \o FmtPadded(d.day, 2)

(***************************************************************************)
(* Changeset: a non-zero u32.                                              *)
(***************************************************************************)
None == [some |-> FALSE]

Some(x) == [some |-> TRUE, v |-> x]

\* NonZero::<u32>::new.
NonZeroNew(n) == IF n = U32(0) THEN None ELSE Some(n)

\* Changeset::MAX.
ChangesetMAX == U32_MAX

\* Changeset::new.
ChangesetNew(n) == NonZeroNew(n)

\* Changeset::checked_add.
ChangesetCheckedAdd(cs, n) == U32CheckedAdd(cs, n)

ChangesetErr(e) == [tag |-> "Err", err |-> e]

\* Changeset::try_from that wraps the integer without asking whether it is zero.
ChangesetTryFromNoZeroCheck(s) ==
    LET n == ParseU32(s)
    IN  IF n.tag = "Err" THEN ChangesetErr([e |-> "InvalidInt", cause |-> n.kind])
        ELSE [tag |-> "Ok", changeset |-> n.v]

\* impl TryFrom<&str> for Changeset.
ChangesetTryFrom(s) ==
    LET n == ParseU32(s)
    IN  IF n.tag = "Err" THEN ChangesetErr([e |-> "InvalidInt", cause |-> n.kind])
        ELSE IF ~NonZeroNew(n.v).some THEN ChangesetErr([e |-> "Zero"])
        ELSE [tag |-> "Ok", changeset |-> NonZeroNew(n.v).v]

\* impl Display for Changeset.
ChangesetFmt(cs) == U32ToString(cs)

(***************************************************************************)
(* Kind.                                                                   *)
(***************************************************************************)
Regular == [k |-> "Regular"]

Breaking == [k |-> "Breaking"]

Feature(name) == [k |-> "Feature", name |-> name]

BreakText == <<"b", "r", "e", "a", "k">>

\* Kind::try_from that takes the reserved word in either case of its first letter.
KindTryFromAnyCase(s) ==
    IF s = <<>> THEN [tag |-> "Ok", kind |-> Regular]
    ELSE IF s = BreakText \/ s = <<"B">> \o Tail(BreakText) THEN [tag |-> "Ok", kind |-> Breaking]
    ELSE IF IsAscii(s) THEN [tag |-> "Ok", kind |-> Feature(s)]
    ELSE [tag |-> "Err", err |-> [e |-> "NonAscii"]]

\* impl TryFrom<&str> for Kind.
KindTryFrom(s) ==
    IF s = <<>> THEN [tag |-> "Ok", kind |-> Regular]
    ELSE IF s = BreakText THEN [tag |-> "Ok", kind |-> Breaking]
    ELSE IF IsAscii(s) THEN [tag |-> "Ok", kind |-> Feature(s)]
    ELSE [tag |-> "Err", err |-> [e |-> "NonAscii"]]

\* impl Display for Kind.
KindFmt(kind) ==
    IF kind.k = "Regular" THEN <<>> ELSE IF kind.k = "Breaking" THEN BreakText ELSE kind.name

\* Position of a variant in the declaration of Kind.
Discriminant(kind) == IF kind.k = "Regular" THEN 0 ELSE IF kind.k = "Breaking" THEN 1 ELSE 2

\* Ord for Kind by the variant alone, the Feature's name left out.
KindCmpVariantOnly(a, b) == IntCmp(Discriminant(a), Discriminant(b))

\* Ord for Kind (derived): the variant first, then the Feature's name.
KindCmp(a, b) ==
    Then(IntCmp(Discriminant(a), Discriminant(b)), IF a.k = "Feature" /\ b.k = "Feature" THEN StrCmp(a.name, b.name) ELSE "Equal")

(***************************************************************************)
(* Version.                                                                *)
(***************************************************************************)
DATE_LENGTH == 10

VersionErr(e, reached) == [tag |-> "Err", err |-> e, split |-> reached]

\* Number of leading ASCII digits: rem.find(|c| !c.is_ascii_digit()).unwrap_or(rem.len()).
FindNonDigit(s) ==
    IF \A i \in 1..Len(s) : IsAsciiDigit(s[i]) THEN ByteLen(s)
    ELSE (CHOOSE i \in 1..Len(s) : ~IsAsciiDigit(s[i]) /\ \A j \in 1..(i - 1) : IsAsciiDigit(s[j])) - 1

\* The rest of Version::try_from with the date parsed before the changeset and the kind.
VersionFromPartsDateFirst(parts) ==
    IF parts.panic THEN [tag |-> "Panic", split |-> TRUE]
    ELSE LET rem == parts.tail
             dot == StripPrefix(rem, ".")
             cut == SplitAt(dot.rest, FindNonDigit(dot.rest))
             cs == ChangesetTryFrom(cut.head)
             rem2 == IF dot.some THEN cut.tail ELSE rem
             dash == StripPrefix(rem2, "-")
             kind == KindTryFrom(dash.rest)
             date == DateTryFrom(parts.head)
         IN  IF date.tag = "Err" THEN VersionErr([e |-> "InvalidDate", cause |-> date.err], TRUE)
             ELSE IF dot.some /\ cs.tag = "Err" THEN VersionErr([e |-> "InvalidChangeset", cause |-> cs.err], TRUE)
             ELSE IF dash.some /\ kind.tag = "Err" THEN VersionErr([e |-> "InvalidKind", cause |-> kind.err], TRUE)
             ELSE IF ~dash.some /\ rem2 # <<>> THEN VersionErr([e |-> "TrailingData"], TRUE)
             ELSE [tag |-> "Ok", split |-> TRUE,
                   version |-> [date |-> date.date,
                                changeset |-> IF dot.some THEN Some(cs.changeset) ELSE None,
                                kind |-> IF dash.some THEN kind.kind ELSE Regular]]

\* The rest of Version::try_from without the check that nothing is left over.
VersionFromPartsNoTrailingCheck(parts) ==
    IF parts.panic THEN [tag |-> "Panic", split |-> TRUE]
    ELSE LET rem == parts.tail
             dot == StripPrefix(rem, ".")
             cut == SplitAt(dot.rest, FindNonDigit(dot.rest))
             cs == ChangesetTryFrom(cut.head)
             rem2 == IF dot.some THEN cut.tail ELSE rem
             dash == StripPrefix(rem2, "-")
             kind == KindTryFrom(dash.rest)
             date == DateTryFrom(parts.head)
         IN  IF dot.some /\ cs.tag = "Err" THEN VersionErr([e |-> "InvalidChangeset", cause |-> cs.err], TRUE)
             ELSE IF dash.some /\ kind.tag = "Err" THEN VersionErr([e |-> "InvalidKind", cause |-> kind.err], TRUE)
             ELSE IF date.tag = "Err" THEN VersionErr([e |-> "InvalidDate", cause |-> date.err], TRUE)
             ELSE [tag |-> "Ok", split |-> TRUE,
                   version |-> [date |-> date.date,
                                changeset |-> IF dot.some THEN Some(cs.changeset) ELSE None,
                                kind |-> IF dash.some THEN kind.kind ELSE Regular]]

\* The rest of Version::try_from with a changeset that fails to parse taken as absent.
VersionFromPartsLenientChangeset(parts) ==
    IF parts.panic THEN [tag |-> "Panic", split |-> TRUE]
    ELSE LET rem == parts.tail
             dot == StripPrefix(rem, ".")
             cut == SplitAt(dot.rest, FindNonDigit(dot.rest))
             cs == ChangesetTryFrom(cut.head)
             rem2 == IF dot.some THEN cut.tail ELSE rem
             dash == StripPrefix(rem2, "-")
             kind == KindTryFrom(dash.rest)
             date == DateTryFrom(parts.head)
         IN  IF dash.some /\ kind.tag = "Err" THEN VersionErr([e |-> "InvalidKind", cause |-> kind.err], TRUE)
             ELSE IF ~dash.some /\ rem2 # <<>> THEN VersionErr([e |-> "TrailingData"], TRUE)
             ELSE IF date.tag = "Err" THEN VersionErr([e |-> "InvalidDate", cause |-> date.err], TRUE)
             ELSE [tag |-> "Ok", split |-> TRUE,
                   version |-> [date |-> date.date,
                                changeset |-> IF dot.some /\ cs.tag = "Ok" THEN Some(cs.changeset) ELSE None,
                                kind |-> IF dash.some THEN kind.kind ELSE Regular]]

\* Version::try_from after the split at DATE_LENGTH: changeset, kind, then date.
VersionFromParts(parts) ==
    IF parts.panic THEN [tag |-> "Panic", split |-> TRUE]
    ELSE LET rem == parts.tail
             dot == StripPrefix(rem, ".")
             cut == SplitAt(dot.rest, FindNonDigit(dot.rest))
             cs == ChangesetTryFrom(cut.head)
             rem2 == IF dot.some THEN cut.tail ELSE rem
             dash == StripPrefix(rem2, "-")
             kind == KindTryFrom(dash.rest)
             date == DateTryFrom(parts.head)
         IN  IF dot.some /\ cs.tag = "Err" THEN VersionErr([e |-> "InvalidChangeset", cause |-> cs.err], TRUE)
             ELSE IF dash.some /\ kind.tag = "Err" THEN VersionErr([e |-> "InvalidKind", cause |-> kind.err], TRUE)
             ELSE IF ~dash.some /\ rem2 # <<>> THEN VersionErr([e |-> "TrailingData"], TRUE)
             ELSE IF date.tag = "Err" THEN VersionErr([e |-> "InvalidDate", cause |-> date.err], TRUE)
             ELSE [tag |-> "Ok", split |-> TRUE,
                   version |-> [date |-> date.date,
                                changeset |-> IF dot.some THEN Some(cs.changeset) ELSE None,
                                kind |-> IF dash.some THEN kind.kind ELSE Regular]]

\* Version::try_from without the is_ascii check.
VersionTryFromNoAsciiCheck(s) ==
    IF ByteLen(s) < DATE_LENGTH THEN VersionErr([e |-> "TooShort"], FALSE)
    ELSE VersionFromParts(SplitAt(s, DATE_LENGTH))

\* Version::try_from with the length check ahead of the is_ascii check.
VersionTryFromLengthFirst(s) ==
    IF ByteLen(s) < DATE_LENGTH THEN VersionErr([e |-> "TooShort"], FALSE)
    ELSE IF ~IsAscii(s) THEN VersionErr([e |-> "NonAscii"], FALSE)
    ELSE VersionFromParts(SplitAt(s, DATE_LENGTH))

\* impl TryFrom<&str> for Version.
VersionTryFrom(s) ==
    IF ~IsAscii(s) THEN VersionErr([e |-> "NonAscii"], FALSE)
    ELSE IF ByteLen(s) < DATE_LENGTH THEN VersionErr([e |-> "TooShort"], FALSE)
    ELSE VersionFromParts(SplitAt(s, DATE_LENGTH))

\* impl Display for Version.
VersionFmt(v) ==
    DateFmt(v.date)
        \o (IF v.changeset.some THEN <<".">> \o ChangesetFmt(v.changeset.v) ELSE <<>>)
        \o (IF v.kind.k # "Regular" THEN <<"-">> \o KindFmt(v.kind) ELSE <<>>)

\* Ord for Option<Changeset> (derived): None sorts before Some.
OptionCmp(a, b) ==
    IF ~a.some /\ ~b.some THEN "Equal"
    ELSE IF ~a.some THEN "Less"
    ELSE IF ~b.some THEN "Greater"
    ELSE U32Cmp(a.v, b.v)

\* Ord for Version with the kind compared ahead of the changeset.
VersionCmpKindFirst(a, b) == Then(DateCmp(a.date, b.date), Then(KindCmp(a.kind, b.kind), OptionCmp(a.changeset, b.changeset)))

\* Ord for Version (derived): date, changeset, kind.
VersionCmp(a, b) == Then(DateCmp(a.date, b.date), Then(OptionCmp(a.changeset, b.changeset), KindCmp(a.kind, b.kind)))

\* impl Default for Version, with the clock reading `now`.
VersionDefault(now) == [date |-> now, changeset |-> None, kind |-> Regular]

\* Version::increment with a wrapping in place of the checked addition.
IncrementWrapping(v, now) ==
    IF v.date = VersionDefault(now).date
    THEN [VersionDefault(now) EXCEPT !.changeset =
            IF v.changeset.some
            THEN (IF ChangesetCheckedAdd(v.changeset.v, 1).some
                  THEN Some(ChangesetCheckedAdd(v.changeset.v, 1).v)
                  ELSE Some(U32(0)))
            ELSE ChangesetNew(U32(1))]
    ELSE VersionDefault(now)

\* Version::increment that starts the changesets of a day at 0: Changeset::new(0) is None.
IncrementFromZero(v, now) ==
    IF v.date = VersionDefault(now).date
    THEN [VersionDefault(now) EXCEPT !.changeset =
            IF v.changeset.some
            THEN (IF ChangesetCheckedAdd(v.changeset.v, 1).some
                  THEN Some(ChangesetCheckedAdd(v.changeset.v, 1).v)
                  ELSE Some(ChangesetMAX))
            ELSE ChangesetNew(U32(0))]
    ELSE VersionDefault(now)

\* Version::increment, with the clock reading `now`.
Increment(v, now) ==
    IF v.date = VersionDefault(now).date
    THEN [VersionDefault(now) EXCEPT !.changeset =
            IF v.changeset.some
            THEN (IF ChangesetCheckedAdd(v.changeset.v, 1).some
                  THEN Some(ChangesetCheckedAdd(v.changeset.v, 1).v)
                  ELSE Some(ChangesetMAX))
            ELSE ChangesetNew(U32(1))]
    ELSE VersionDefault(now)

(***************************************************************************)
(* Inputs: the strings handed to the parsers, the integers handed to       *)
(* Changeset::new, the readings of the clock.                              *)
(***************************************************************************)
\* Longest remainder after the date that is enumerated exhaustively.
MaxRem == 3

\* Longest whole input that is enumerated exhaustively.
MaxShort == 3

\* Most calls of increment in one chain.
MaxCalls == 3

Chars == {"0", "1", ".", "-", "+", "a", "U+00E9"}

Strs(n) == UNION {[1..k -> Chars] : k \in 0..n}

\* Texts of the year group.
YearTexts ==
    {<<"2", "0", "1", "9">>, <<"2", "0", "2", "4">>, <<"2", "0", "2", "3">>, <<"0", "0", "0", "0">>, <<"9", "9", "9", "9">>,
     <<"+", "0", "0", "1">>, <<"-", "0", "0", "1">>, <<"-", "1", "0", "0", "0">>, <<"-", "9", "9", "9", "9">>, <<"1">>,
     <<"9", "9", "9", "9", "9">>, <<"2", "0", "a", "9">>, <<>>, <<"2", "1", "4", "7", "4", "8", "3", "6", "4", "8">>}

\* Texts of the month group.
MonthTexts ==
    {<<"0", "1">>, <<"0", "2">>, <<"1", "2">>, <<"1">>, <<"1", "3">>, <<"0", "0">>,
     <<"3", "0">>, <<"9", "9">>, <<"3", "0", "0">>, <<"+", "1">>, <<"0", "a">>, <<>>}

\* Texts of the day group.
DayTexts ==
    {<<"0", "1">>, <<"0", "6">>, <<"2", "9">>, <<"3", "0">>, <<"3", "1">>, <<"0", "0">>,
     <<"1">>, <<"0", "0", "0", "0", "1">>, <<"3", "2">>, <<"+", "6">>, <<"a">>}

DateTexts == {y \o <<".">> \o m \o <<".">> \o d : y \in YearTexts, m \in MonthTexts, d \in DayTexts}

\* The dates every remainder is appended to: a valid and an invalid one.
BaseDates ==
    {<<"2", "0", "1", "9", ".", "0", "1", ".", "0", "6">>, <<"2", "0", "1", "9", ".", "3", "0", ".", "0", "1">>}

\* Remainders longer than MaxRem.
SpecialRems ==
    {<<".", "4", "2", "9", "4", "9", "6", "7", "2", "9", "4">>, <<".", "4", "2", "9", "4", "9", "6", "7", "2", "9", "5">>, <<".", "4", "2", "9", "4", "9", "6", "7", "2", "9", "6">>, <<".", "0", "0", "7">>,
     <<".", "6", "5", "5", "3", "6">>, <<".", "5", "-", "b", "r", "e", "a", "k">>, <<"-", "b", "r", "e", "a", "k">>, <<"-", "B", "r", "e", "a", "k">>,
     <<"-", "b", "r", "e", "a", "k", "a">>, <<".", "1", "-", "a", ".", "1">>}

\* The remainders appended to every date text of DATE_LENGTH bytes.
FewRems ==
    {<<".", "1">>, <<".", "0">>, <<"-", "a">>, <<"+", "a">>, <<".", "1", "+">>, <<".", "4", "2", "9", "4", "9", "6", "7", "2", "9", "5", "-", "b", "r", "e", "a", "k">>}

\* Further whole inputs.
MiscTexts ==
    {<<"b", "r", "e", "a", "k">>, <<"B", "r", "e", "a", "k">>, <<"b", "r", "e", "a", "k", "a">>, <<"4", "2", "9", "4", "9", "6", "7", "2", "9", "5">>,
     <<"4", "2", "9", "4", "9", "6", "7", "2", "9", "6">>, <<"6", "5", "5", "3", "6">>, <<"+", "5">>, <<"2", "0", "1", "9">>,
     <<"2", "0", "1", "9", ".", "0", "1", ".", "0">>, <<"2", "0", "1", "9", "-", "0", "1", "-", "0", "6">>, <<"2", "0", "1", "9", ".", "0", "1", "-", "0", "6">>, <<"2", "0", "1", "U+00E9", ".", "0", "1", ".", "0", "6">>,
     <<"2", "0", "1", "9", ".", "0", "1", ".", "0", "U+00E9">>, <<"2", "0", "1", "9", ".", "0", "1", ".", "U+00E9", "6">>}

Rems == Strs(MaxRem) \cup SpecialRems

Inputs ==
    DateTexts
        \cup {d \o r : d \in BaseDates, r \in Rems}
        \cup {d \o r : d \in {x \in DateTexts : ByteLen(x) = DATE_LENGTH}, r \in FewRems}
        \cup Strs(MaxShort)
        \cup MiscTexts

\* Arguments of Changeset::new.
U32Samples == {U32(0), U32(1), U32(2), [hi |-> 1, lo |-> 0], [hi |-> HALF - 1, lo |-> HALF - 2], U32_MAX}

Ymd(y, m, d) == [year |-> y, month |-> m, day |-> d]

\* Readings of the clock (OffsetDateTime::now_utc().date()).
ClockDates == {Ymd(2019, 1, 6), Ymd(2019, 1, 7), Ymd(2024, 2, 29)}

(***************************************************************************)
(* The program: parse an input with one of the four parsers, display a     *)
(* parsed Version and parse the text again, and increment a Version under  *)
(* the clock.                                                              *)
(***************************************************************************)
Absent == [tag |-> "None"]

FirstDay == Ymd(2019, 1, 6)

Init ==
    /\ value \in Inputs
    /\ op = "init"
    /\ result = Absent
    /\ shown = <<>>
    /\ back = Absent
    /\ today = FirstDay
    /\ self = Absent
    /\ new = Absent
    /\ calls = 0
    /\ list = <<>>
    /\ sorted = <<>>

\* Version::try_from(value).
ParseVersion ==
    /\ op = "init"
    /\ result' = VersionTryFrom(value)
    /\ op' = "version"
    /\ UNCHANGED <<value, shown, back, today, self, new, calls, list, sorted>>

\* Date::try_from(value).
ParseDate ==
    /\ op = "init"
    /\ result' = DateTryFrom(value)
    /\ op' = "date"
    /\ UNCHANGED <<value, shown, back, today, self, new, calls, list, sorted>>

\* Changeset::try_from(value).
ParseChangeset ==
    /\ op = "init"
    /\ result' = ChangesetTryFrom(value)
    /\ op' = "changeset"
    /\ UNCHANGED <<value, shown, back, today, self, new, calls, list, sorted>>

\* Kind::try_from(value).
ParseKind ==
    /\ op = "init"
    /\ result' = KindTryFrom(value)
    /\ op' = "kind"
    /\ UNCHANGED <<value, shown, back, today, self, new, calls, list, sorted>>

\* Changeset::new(n): no string is involved.
NewChangeset ==
    /\ op = "init"
    /\ \E n \in U32Samples : result' = [tag |-> "New", arg |-> n, ret |-> ChangesetNew(n)]
    /\ value' = <<>>
    /\ op' = "new"
    /\ UNCHANGED <<shown, back, today, self, new, calls, list, sorted>>

\* version.to_string() of the Version just parsed.
Display ==
    /\ op = "version"
    /\ result.tag = "Ok"
    /\ shown' = VersionFmt(result.version)
    /\ op' = "display"
    /\ UNCHANGED <<value, result, back, today, self, new, calls, list, sorted>>

\* Version::try_from(shown).
Reparse ==
    /\ op = "display"
    /\ back' = VersionTryFrom(shown)
    /\ op' = "reparse"
    /\ UNCHANGED <<value, result, shown, today, self, new, calls, list, sorted>>

\* kind.to_string() of the Kind just parsed, by Kind parse or inside Version parse.
DisplayKind ==
    /\ op \in {"kind", "version"}
    /\ result.tag = "Ok"
    /\ self' = (IF op = "kind" THEN result.kind ELSE result.version.kind)
    /\ shown' = KindFmt(self')
    /\ op' = "kinddisplay"
    /\ UNCHANGED <<value, result, back, today, new, calls, list, sorted>>

\* Kind::try_from(shown).
ReparseKind ==
    /\ op = "kinddisplay"
    /\ back' = KindTryFrom(shown)
    /\ op' = "kindreparse"
    /\ UNCHANGED <<value, result, shown, today, self, new, calls, list, sorted>>

\* A reading of the wall clock: any day, the clock may have been set back.
Readings == ClockDates

\* Version::default().
Default ==
    /\ op = "init"
    /\ \E now \in Readings :
        /\ today' = now
        /\ new' = VersionDefault(now)
    /\ op' = "default"
    /\ value' = <<>>
    /\ UNCHANGED <<result, shown, back, self, calls, list, sorted>>

\* receiver.increment(), the receiver being the Version just parsed.
IncrementParsed ==
    /\ op = "version"
    /\ result.tag = "Ok"
    /\ \E now \in Readings :
        /\ today' = now
        /\ new' = Increment(result.version, now)
    /\ self' = result.version
    /\ calls' = 1
    /\ op' = "increment"
    /\ value' = <<>>
    /\ result' = Absent
    /\ UNCHANGED <<shown, back, list, sorted>>

\* receiver.increment(), the receiver being the Version the last call returned.
IncrementAgain ==
    /\ op \in {"default", "increment"}
    /\ calls < MaxCalls
    /\ \E now \in Readings :
        /\ today' = now
        /\ new' = Increment(new, now)
    /\ self' = new
    /\ calls' = calls + 1
    /\ op' = "increment"
    /\ UNCHANGED <<value, result, shown, back, list, sorted>>

Next ==
    \/ ParseVersion
    \/ ParseDate
    \/ ParseChangeset
    \/ ParseKind
    \/ NewChangeset
    \/ Display
    \/ Reparse
    \/ DisplayKind
    \/ ReparseKind
    \/ Default
    \/ IncrementParsed
    \/ IncrementAgain

Spec == Init /\ [][Next]_vars

(***************************************************************************)
(* Comparing and sorting: three Versions, each one parsed from a text.     *)
(***************************************************************************)
RECURSIVE Insert(_, _)
\* Insertion of x into the sorted slice s, after the elements that are not greater.
Insert(x, s) ==
    IF s = <<>> THEN <<x>>
    ELSE IF VersionCmp(x, Head(s)) = "Less" THEN <<x>> \o s
    ELSE <<Head(s)>> \o Insert(x, Tail(s))

RECURSIVE SortUnstable(_)
\* slice::sort_unstable on a short slice: an insertion sort by Ord.
SortUnstable(s) == IF s = <<>> THEN <<>> ELSE Insert(Head(s), SortUnstable(Tail(s)))

OrdDateTexts == {<<"2", "0", "2", "4", ".", "0", "4", ".", "0", "4">>, <<"2", "0", "2", "4", ".", "0", "5", ".", "0", "3">>, <<"2", "0", "2", "5", ".", "0", "4", ".", "0", "3">>}

OrdChangesetTexts == {<<>>, <<".", "2">>, <<".", "6", "5", "5", "3", "6">>}

OrdKindTexts == {<<>>, <<"-", "b", "r", "e", "a", "k">>, <<"-", "a">>, <<"-", "a", "b">>, <<"-", "b">>}

OrdVersions ==
    {VersionTryFrom(d \o c \o k).version : d \in OrdDateTexts, c \in OrdChangesetTexts, k \in OrdKindTexts}

InitOrd ==
    /\ list \in [1..3 -> OrdVersions]
    /\ op = "init"
    /\ value = <<>>
    /\ result = Absent
    /\ shown = <<>>
    /\ back = Absent
    /\ today = FirstDay
    /\ self = Absent
    /\ new = Absent
    /\ calls = 0
    /\ sorted = <<>>

\* a.cmp(&b) for the pairs of the list.
Compare ==
    /\ op = "init"
    /\ result' = [tag |-> "Cmp",
                  ab |-> VersionCmp(list[1], list[2]),
                  ba |-> VersionCmp(list[2], list[1]),
                  bc |-> VersionCmp(list[2], list[3]),
                  ac |-> VersionCmp(list[1], list[3])]
    /\ op' = "compare"
    /\ UNCHANGED <<value, shown, back, today, self, new, calls, list, sorted>>

\* versions.sort_unstable().
Sort ==
    /\ op = "init"
    /\ sorted' = SortUnstable(list)
    /\ op' = "sort"
    /\ UNCHANGED <<value, result, shown, back, today, self, new, calls, list>>

NextOrd ==
    \/ Compare
    \/ Sort

SpecOrd == InitOrd /\ [][NextOrd]_vars

(***************************************************************************)
(* Vocabulary of the properties, stated on the input text itself.          *)
(***************************************************************************)
\* The input has a character outside ASCII.
HasNonAscii(s) == \E i \in 1..Len(s) : CodePoint(s[i]) >= 128

\* The text after the first n characters.
After(s, n) == SubSeq(s, n + 1, Len(s))

\* The longest prefix of s made of ASCII digits.
DigitRun(s) ==
    LET n == CHOOSE k \in 0..Len(s) :
                 /\ \A i \in 1..k : IsAsciiDigit(s[i])
                 /\ k = Len(s) \/ ~IsAsciiDigit(s[k + 1])
    IN  SubSeq(s, 1, n)

RECURSIVE StripZeros(_)
StripZeros(s) == IF s # <<>> /\ Head(s) = "0" THEN StripZeros(Tail(s)) ELSE s

\* The decimal text of u32::MAX.
MaxText == <<"4", "2", "9", "4", "9", "6", "7", "2", "9", "5">>

\* A digit string that denotes an integer in 1..=u32::MAX.
DenotesChangeset(run) ==
    LET z == StripZeros(run)
    IN  /\ z # <<>>
        /\ \A i \in 1..Len(z) : IsAsciiDigit(z[i])
        /\ \/ Len(z) < Len(MaxText)
           \/ /\ Len(z) = Len(MaxText)
              /\ \/ z = MaxText
                 \/ \E i \in 1..Len(z) :
                        /\ DigitValue(z[i]) < DigitValue(MaxText[i])
                        /\ \A j \in 1..(i - 1) : z[j] = MaxText[j]

\* A non-empty digit string that denotes the integer 0.
DenotesZero(s) == s # <<>> /\ \A i \in 1..Len(s) : s[i] = "0"

\* A Date that is a real calendar day.
RealDate(d) ==
    /\ d.year \in MIN_YEAR..MAX_YEAR
    /\ d.month \in 1..12
    /\ d.day >= 1
    /\ d.day <= (IF d.month = 2 THEN (IF d.year % 4 = 0 /\ (d.year % 100 # 0 \/ d.year % 400 = 0) THEN 29 ELSE 28)
                 ELSE IF d.month \in {4, 6, 9, 11} THEN 30 ELSE 31)

\* A changeset that is absent or at least 1.
NonZero(cs) == ~cs.some \/ cs.v.hi > 0 \/ cs.v.lo >= 1

ErrorKinds == {"NonAscii", "TooShort", "InvalidDate", "InvalidChangeset", "InvalidKind", "TrailingData"}

\* A result of Version parse: a well-formed Version or one of the six errors.
InTaxonomy(r) ==
    \/ r.tag = "Ok" /\ RealDate(r.version.date) /\ NonZero(r.version.changeset)
          /\ r.version.kind.k \in {"Regular", "Breaking", "Feature"}
    \/ r.tag = "Err" /\ r.err.e \in ErrorKinds

(***************************************************************************)
(* C1. Round trip: parsing the text Display produces for a parsed Version  *)
(* succeeds and returns an equal Version.                                  *)
(***************************************************************************)
RoundTrip == op = "reparse" => (back.tag = "Ok" /\ back.version = result.version)

(***************************************************************************)
(* C4. Version parse is total: it never panics, it returns a Version or    *)
(* one of the six errors, and the split at byte offset DATE_LENGTH is only *)
(* reached for an all-ASCII input of at least DATE_LENGTH bytes.           *)
(***************************************************************************)
ParseTotal ==
    /\ op = "version" =>
          /\ InTaxonomy(result)
          /\ result.split => (~HasNonAscii(value) /\ Len(value) >= DATE_LENGTH)
    /\ op = "reparse" =>
          /\ InTaxonomy(back)
          /\ back.split => (~HasNonAscii(shown) /\ Len(shown) >= DATE_LENGTH)

\* An input whose byte offset DATE_LENGTH falls inside a character was parsed.
ParseTotalWitness ==
    /\ op = "version"
    /\ HasNonAscii(value)
    /\ Len(value) = DATE_LENGTH
    /\ CodePoint(value[DATE_LENGTH]) >= 128
    /\ result.tag = "Err"

(***************************************************************************)
(* C5. Up-front validation: a non-ASCII input yields NonAscii whatever its *)
(* length, an all-ASCII input shorter than DATE_LENGTH yields TooShort,    *)
(* and both are decided before the split (so before any date, changeset or *)
(* kind parsing).                                                          *)
(***************************************************************************)
UpFront ==
    op = "version" =>
        /\ HasNonAscii(value) => result = VersionErr([e |-> "NonAscii"], FALSE)
        /\ (~HasNonAscii(value) /\ Len(value) < DATE_LENGTH) => result = VersionErr([e |-> "TooShort"], FALSE)

\* A non-ASCII input shorter than DATE_LENGTH bytes was parsed.
UpFrontWitness ==
    /\ op = "version"
    /\ HasNonAscii(value)
    /\ ByteLen(value) < DATE_LENGTH
    /\ result.err.e = "NonAscii"

(***************************************************************************)
(* The parts of an input of Version parse, read off the text: the date     *)
(* text, the remainder, the digit run after a '.', and what is left after  *)
(* the optional changeset.                                                 *)
(***************************************************************************)
\* Version parse was applied to an all-ASCII input of at least DATE_LENGTH characters.
Structural == op = "version" /\ ~HasNonAscii(value) /\ Len(value) >= DATE_LENGTH

DateText == SubSeq(value, 1, DATE_LENGTH)

Remainder == After(value, DATE_LENGTH)

HasDot == Remainder # <<>> /\ Remainder[1] = "."

Run == DigitRun(After(Remainder, 1))

\* The text after the date and, when a '.' follows the date, after the '.' and its digit run.
Leftover == IF HasDot THEN After(Remainder, 1 + Len(Run)) ELSE Remainder

StartsWith(s, c) == s # <<>> /\ s[1] = c

IsError(r, e) == r.tag = "Err" /\ r.err.e = e

(***************************************************************************)
(* C6, as claimed. Whenever the first DATE_LENGTH characters fail Date     *)
(* parse, the result is InvalidDate carrying that error, whatever follows. *)
(***************************************************************************)
DateErrorFirst ==
    (Structural /\ DateTryFrom(DateText).tag = "Err") =>
        result = VersionErr([e |-> "InvalidDate", cause |-> DateTryFrom(DateText).err], TRUE)

(***************************************************************************)
(* C6, amended. The date is parsed last: when the first DATE_LENGTH        *)
(* characters fail Date parse, the result is InvalidChangeset if a '.'     *)
(* follows the date with a digit run that is no changeset, else            *)
(* TrailingData if the leftover is non-empty and does not start with '-',  *)
(* and only otherwise InvalidDate carrying the Date error.                 *)
(***************************************************************************)
DateErrorLast ==
    (Structural /\ DateTryFrom(DateText).tag = "Err") =>
        IF HasDot /\ ~DenotesChangeset(Run) THEN IsError(result, "InvalidChangeset")
        ELSE IF Leftover # <<>> /\ ~StartsWith(Leftover, "-") THEN IsError(result, "TrailingData")
        ELSE result = VersionErr([e |-> "InvalidDate", cause |-> DateTryFrom(DateText).err], TRUE)

\* An invalid date followed by a well-formed changeset and kind was parsed.
DateErrorLastWitness ==
    /\ Structural
    /\ DateTryFrom(DateText).tag = "Err"
    /\ HasDot
    /\ DenotesChangeset(Run)
    /\ StartsWith(Leftover, "-")
    /\ IsError(result, "InvalidDate")

(***************************************************************************)
(* C7. Trailing data: with a valid date, the result is TrailingData when   *)
(* the remainder is non-empty and starts with neither '.' nor '-', and     *)
(* when the leftover after a valid changeset is non-empty and does not     *)
(* start with '-'; after a '-' the whole rest is the kind, so the parse    *)
(* succeeds with the kind whose text is that rest.                         *)
(***************************************************************************)
TrailingData ==
    (Structural /\ DateTryFrom(DateText).tag = "Ok") =>
        /\ (Remainder # <<>> /\ ~StartsWith(Remainder, ".") /\ ~StartsWith(Remainder, "-"))
              => result = VersionErr([e |-> "TrailingData"], TRUE)
        /\ (HasDot /\ DenotesChangeset(Run) /\ Leftover # <<>> /\ ~StartsWith(Leftover, "-"))
              => result = VersionErr([e |-> "TrailingData"], TRUE)
        /\ ((~HasDot \/ DenotesChangeset(Run)) /\ StartsWith(Leftover, "-"))
              => (result.tag = "Ok" /\ KindFmt(result.version.kind) = After(Leftover, 1))

\* A valid date and changeset followed by text that does not start with '-' was parsed.
TrailingDataWitness ==
    /\ Structural
    /\ DateTryFrom(DateText).tag = "Ok"
    /\ HasDot
    /\ DenotesChangeset(Run)
    /\ Leftover # <<>>
    /\ ~StartsWith(Leftover, "-")
    /\ IsError(result, "TrailingData")

(***************************************************************************)
(* C8. A present Changeset is never zero: Changeset parse of a text        *)
(* denoting 0 fails with Zero, Changeset::new(0) returns None, Version     *)
(* parse of a '.0' changeset fails with InvalidChangeset(Zero), and every  *)
(* Version that parse, default or increment returns has a changeset that   *)
(* is absent or at least 1.                                                *)
(***************************************************************************)
NeverZero ==
    /\ (op = "changeset" /\ DenotesZero(value)) => result = ChangesetErr([e |-> "Zero"])
    /\ (op = "changeset" /\ result.tag = "Ok") => NonZero(Some(result.changeset))
    /\ op = "new" => (result.ret.some <=> result.arg # U32(0)) /\ NonZero(result.ret)
    /\ (Structural /\ HasDot /\ DenotesZero(Run))
          => result = VersionErr([e |-> "InvalidChangeset", cause |-> [e |-> "Zero"]], TRUE)
    /\ (op = "version" /\ result.tag = "Ok") => NonZero(result.version.changeset)
    /\ (op = "reparse" /\ back.tag = "Ok") => NonZero(back.version.changeset)
    /\ op = "default" => NonZero(new.changeset)
    /\ op = "increment" => NonZero(self.changeset) /\ NonZero(new.changeset)

\* A Version text with the changeset '.00' was parsed.
NeverZeroWitness ==
    /\ Structural
    /\ DateTryFrom(DateText).tag = "Ok"
    /\ HasDot
    /\ Run = <<"0", "0">>
    /\ IsError(result, "InvalidChangeset")

(***************************************************************************)
(* C9. When a '.' follows the date, the changeset text is the maximal      *)
(* digit run after it: a run that is empty or denotes no integer in        *)
(* 1..=u32::MAX fails with InvalidChangeset, and a Version that is         *)
(* returned carries the integer the run denotes.                           *)
(***************************************************************************)
ChangesetRun ==
    (Structural /\ HasDot) =>
        /\ ~DenotesChangeset(Run) => IsError(result, "InvalidChangeset")
        /\ result.tag = "Ok" =>
              /\ result.version.changeset.some
              /\ ChangesetFmt(result.version.changeset.v) = StripZeros(Run)

\* A '.' followed at once by '-' was parsed: the digit run is empty.
ChangesetRunWitness ==
    /\ Structural
    /\ DateTryFrom(DateText).tag = "Ok"
    /\ HasDot
    /\ Run = <<>>
    /\ StartsWith(After(Remainder, 1), "-")
    /\ IsError(result, "InvalidChangeset")

\* b = a + 1 on the two halves of a u32 below u32::MAX.
IsSuccessor(a, b) ==
    \/ a.lo < HALF - 1 /\ b = [hi |-> a.hi, lo |-> a.lo + 1]
    \/ a.lo = HALF - 1 /\ a.hi < HALF - 1 /\ b = [hi |-> a.hi + 1, lo |-> 0]

(***************************************************************************)
(* C10. Increment: the returned Version is dated with the clock's reading  *)
(* and is Regular; its changeset is absent when the receiver's date is     *)
(* another day, and otherwise min(rank + 1, u32::MAX), the rank of an      *)
(* absent changeset being 0; u32::MAX is kept once it is reached.          *)
(***************************************************************************)
IncrementLaw ==
    op = "increment" =>
        /\ new.date = today
        /\ new.kind = Regular
        /\ self.date # today => ~new.changeset.some
        /\ self.date = today =>
              /\ new.changeset.some
              /\ ~self.changeset.some => new.changeset.v = U32(1)
              /\ (self.changeset.some /\ self.changeset.v = U32_MAX) => new.changeset.v = U32_MAX
              /\ (self.changeset.some /\ self.changeset.v # U32_MAX) => IsSuccessor(self.changeset.v, new.changeset.v)

\* A Version at u32::MAX was incremented on its own day, twice in a row.
IncrementLawWitness ==
    /\ op = "increment"
    /\ calls >= 2
    /\ self.date = today
    /\ self.changeset = Some(U32_MAX)
    /\ new.changeset = Some(U32_MAX)

\* The order the properties speak of, stated on the fields.
DateLess(a, b) ==
    \/ a.year < b.year
    \/ a.year = b.year /\ a.month < b.month
    \/ a.year = b.year /\ a.month = b.month /\ a.day < b.day

\* The rank as a pair of halves: the pair of an absent changeset is that of 0.
Rank(cs) == IF cs.some THEN cs.v ELSE [hi |-> 0, lo |-> 0]

RankLess(a, b) == Rank(a).hi < Rank(b).hi \/ (Rank(a).hi = Rank(b).hi /\ Rank(a).lo < Rank(b).lo)

\* s sorts before t in the dictionary: a proper prefix, or smaller at the first difference.
NameLess(s, t) ==
    \E i \in 1..Len(t) :
        /\ \A j \in 1..(i - 1) : j <= Len(s) /\ s[j] = t[j]
        /\ i > Len(s) \/ (i <= Len(s) /\ CodePoint(s[i]) < CodePoint(t[i]))

KindLess(a, b) ==
    \/ a.k = "Regular" /\ b.k # "Regular"
    \/ a.k = "Breaking" /\ b.k = "Feature"
    \/ a.k = "Feature" /\ b.k = "Feature" /\ NameLess(a.name, b.name)

LexLess(a, b) ==
    \/ DateLess(a.date, b.date)
    \/ a.date = b.date /\ RankLess(a.changeset, b.changeset)
    \/ a.date = b.date /\ Rank(a.changeset) = Rank(b.changeset) /\ KindLess(a.kind, b.kind)

(***************************************************************************)
(* C2. Version comparison is the lexicographic comparison of (date,        *)
(* changeset rank, kind): dates by (year, month, day); rank 0 for an       *)
(* absent changeset and the value for a present one, so that on one date   *)
(* an absent changeset sorts before any present one whatever the kinds;    *)
(* Regular < Breaking < any Feature, two Features by their names.          *)
(***************************************************************************)
OrderIsLexicographic ==
    op = "compare" =>
        /\ result.ab = "Less" <=> LexLess(list[1], list[2])
        /\ result.ab = "Greater" <=> LexLess(list[2], list[1])
        /\ (list[1].date = list[2].date /\ ~list[1].changeset.some /\ list[2].changeset.some)
              => result.ab = "Less"

\* On one date, a Feature without changeset was compared with a Regular with changeset.
OrderIsLexicographicWitness ==
    /\ op = "compare"
    /\ list[1].date = list[2].date
    /\ ~list[1].changeset.some
    /\ list[1].kind.k = "Feature"
    /\ list[2].changeset.some
    /\ list[2].kind.k = "Regular"
    /\ result.ab = "Less"

Ascending(s) == \A i, j \in 1..Len(s) : i < j => VersionCmp(s[i], s[j]) # "Greater"

\* The rearrangements of a list of three.
Perms == {f \in [1..3 -> 1..3] : \A i, j \in 1..3 : i # j => f[i] # f[j]}

Arrange(l, f) == [i \in 1..3 |-> l[f[i]]]

(***************************************************************************)
(* C3. Version comparison is a total order consistent with structural      *)
(* equality: exactly one of a<b, a==b, a>b holds, a<b and b<c give a<c,    *)
(* and sorting yields the one ascending arrangement of the list.           *)
(***************************************************************************)
TotalOrder ==
    /\ op = "compare" =>
          /\ result.ab \in {"Less", "Equal", "Greater"}
          /\ result.ab = "Equal" <=> list[1] = list[2]
          /\ result.ab = "Less" <=> result.ba = "Greater"
          /\ result.ab = "Greater" <=> result.ba = "Less"
          /\ (result.ab = "Less" /\ result.bc = "Less") => result.ac = "Less"
    /\ op = "sort" =>
          /\ Ascending(sorted)
          /\ \E f \in Perms : sorted = Arrange(list, f)
          /\ \A f \in Perms : Ascending(Arrange(list, f)) => Arrange(list, f) = sorted

\* Three different Versions, given out of order, were sorted.
TotalOrderWitness ==
    /\ op = "sort"
    /\ Cardinality({list[1], list[2], list[3]}) = 3
    /\ VersionCmp(list[1], list[2]) = "Greater"
    /\ VersionCmp(list[2], list[3]) = "Greater"
    /\ sorted = <<list[3], list[2], list[1]>>

\* Every character of s is an ASCII digit.
AllDigits(s) == \A i \in 1..Len(s) : IsAsciiDigit(s[i])

\* The integer a string of at most four digits denotes.
Denoted(s) == IF s = <<>> THEN 0 ELSE ParseI32(s).v

\* YYYY "." MM "." DD: four digits, two digits, two digits.
DateShape(s) ==
    /\ Len(s) = DATE_LENGTH
    /\ AllDigits(SubSeq(s, 1, 4))
    /\ s[5] = "."
    /\ AllDigits(SubSeq(s, 6, 7))
    /\ s[8] = "."
    /\ AllDigits(SubSeq(s, 9, 10))

\* The date a text of the shape YYYY.MM.DD denotes.
DenotedDate(s) == Ymd(Denoted(SubSeq(s, 1, 4)), Denoted(SubSeq(s, 6, 7)), Denoted(SubSeq(s, 9, 10)))

(***************************************************************************)
(* C11. Every string Version parse accepts conforms to the wire grammar:   *)
(* its first DATE_LENGTH characters are four digits, '.', two digits, '.', *)
(* two digits, unsigned, denoting a real calendar date; then optionally    *)
(* '.' and one or more digits; then optionally '-' and the kind text; and  *)
(* nothing else.                                                           *)
(***************************************************************************)
WireGrammar ==
    (op = "version" /\ result.tag = "Ok") =>
        /\ Len(value) >= DATE_LENGTH
        /\ DateShape(DateText)
        /\ RealDate(DenotedDate(DateText))
        /\ result.version.date = DenotedDate(DateText)
        /\ HasDot => Run # <<>>
        /\ Leftover = <<>> \/ StartsWith(Leftover, "-")

(***************************************************************************)
(* C12. Changeset parse accepts only unsigned decimal digit strings: a     *)
(* text carrying a sign, a leading '+' included, is rejected with an       *)
(* InvalidInt error and yields no Changeset.                               *)
(***************************************************************************)
UnsignedOnly ==
    op = "changeset" =>
        /\ result.tag = "Ok" => (value # <<>> /\ AllDigits(value))
        /\ (StartsWith(value, "+") \/ StartsWith(value, "-")) => IsError(result, "InvalidInt")

\* The input is canonical text: a zero-padded real date, then optionally '.' and a
\* changeset in 1..=u32::MAX without leading zeros, then optionally '-' and a
\* non-empty ASCII kind text.
Canonical ==
    /\ ~HasNonAscii(value)
    /\ Len(value) >= DATE_LENGTH
    /\ DateShape(DateText)
    /\ RealDate(DenotedDate(DateText))
    /\ HasDot => (DenotesChangeset(Run) /\ Head(Run) # "0")
    /\ Leftover # <<>> => (StartsWith(Leftover, "-") /\ Len(Leftover) >= 2)

(***************************************************************************)
(* C13. Formatting inverts parsing on canonical text: Version parse of a   *)
(* canonical text succeeds, with the date, changeset and kind the text     *)
(* denotes, and Display of the result is the text itself: the date, then   *)
(* '.' and the changeset only when present, then '-' and the kind only     *)
(* when the kind is not Regular.                                           *)
(***************************************************************************)
FormatInvertsParse ==
    Canonical =>
        /\ op = "version" =>
              /\ result.tag = "Ok"
              /\ result.version.date = DenotedDate(DateText)
              /\ result.version.changeset.some <=> HasDot
              /\ result.version.kind.k # "Regular" <=> Leftover # <<>>
        /\ op = "display" => shown = value

\* A canonical text with a changeset and a kind was parsed and displayed.
FormatInvertsParseWitness ==
    /\ op = "display"
    /\ Canonical
    /\ HasDot
    /\ StartsWith(Leftover, "-")
    /\ shown = value

\* The name of a Feature as the data model has it: non-empty, ASCII, not the reserved word.
FeatureName(name) == name # <<>> /\ ~HasNonAscii(name) /\ name # BreakText

(***************************************************************************)
(* C14. Kind parse maps the empty string to Regular, exactly "break" to    *)
(* Breaking, every other all-ASCII string to the Feature of that name, and *)
(* a string with a non-ASCII character to the NonAscii error; so every     *)
(* Feature that Kind parse or Version parse produces has a non-empty ASCII *)
(* name other than "break", and Kind parse of the text Display gives for   *)
(* such a Kind returns the same Kind.                                      *)
(***************************************************************************)
KindLaw ==
    /\ op = "kind" =>
          /\ value = <<>> => result = [tag |-> "Ok", kind |-> Regular]
          /\ value = BreakText => result = [tag |-> "Ok", kind |-> Breaking]
          /\ (value # <<>> /\ value # BreakText /\ ~HasNonAscii(value))
                => result = [tag |-> "Ok", kind |-> Feature(value)]
          /\ HasNonAscii(value) => result = [tag |-> "Err", err |-> [e |-> "NonAscii"]]
          /\ (result.tag = "Ok" /\ result.kind.k = "Feature") => FeatureName(result.kind.name)
    /\ (op = "version" /\ result.tag = "Ok" /\ result.version.kind.k = "Feature")
          => FeatureName(result.version.kind.name)
    /\ op = "kindreparse" => back = [tag |-> "Ok", kind |-> self]

\* The text "Break" was parsed to a Feature, displayed, and parsed again.
KindLawWitness ==
    /\ op = "kindreparse"
    /\ value = <<"B">> \o Tail(BreakText)
    /\ self = Feature(value)
    /\ shown = value
    /\ back.kind = self

\* The number of '.' in the input.
DotCount == Cardinality({i \in 1..Len(value) : value[i] = "."})

\* The three groups of an input with two or more '.': the text before the first '.',
\* the text between the first two, and the text after the second.
FirstDot == CHOOSE i \in 1..Len(value) : value[i] = "." /\ \A j \in 1..(i - 1) : value[j] # "."

SecondDot == CHOOSE i \in (FirstDot + 1)..Len(value) : value[i] = "." /\ \A j \in (FirstDot + 1)..(i - 1) : value[j] # "."

YearGroup == SubSeq(value, 1, FirstDot - 1)

MonthGroup == SubSeq(value, FirstDot + 1, SecondDot - 1)

DayGroup == After(value, SecondDot)

\* The digits of a group, behind its sign if it has one.
Unsigned(s) == IF StartsWith(s, "+") \/ StartsWith(s, "-") THEN Tail(s) ELSE s

\* A well-formed decimal integer: an optional sign and one or more digits.
WellFormedInt(s) == Unsigned(s) # <<>> /\ AllDigits(Unsigned(s))

\* A well-formed integer that is not negative.
WellFormedNat(s) == WellFormedInt(s) /\ ~StartsWith(s, "-")

\* The magnitude of a well-formed integer; 99999 stands for every magnitude of five
\* digits or more, all of them beyond the years, months and days there are.
Magnitude(s) == IF Len(StripZeros(Unsigned(s))) > 4 THEN 99999 ELSE Denoted(StripZeros(Unsigned(s)))

(***************************************************************************)
(* C15. Date parse reports errors by cause: no '.' gives                   *)
(* MissingMonthSeparator; exactly one '.' gives MissingDaySeparator; a     *)
(* group that is no well-formed integer gives InvalidInt (the groups taken *)
(* in order, so that the cases do not overlap); with a well-formed year, a *)
(* month that is a well-formed non-negative integer outside 1..=12 (0, 13, *)
(* 30, 99, 300) gives InvalidMonth; and with a well-formed year and a      *)
(* month in 1..=12, a day integer that is no day of that month and year    *)
(* gives InvalidDate.                                                      *)
(***************************************************************************)
DateErrorByCause ==
    op = "date" =>
        /\ DotCount = 0 => result = DateErr([e |-> "MissingMonthSeparator"])
        /\ DotCount = 1 => result = DateErr([e |-> "MissingDaySeparator"])
        /\ DotCount >= 2 =>
              /\ ~WellFormedInt(YearGroup) => IsError(result, "InvalidInt")
              /\ (WellFormedInt(YearGroup) /\ ~WellFormedInt(MonthGroup)) => IsError(result, "InvalidInt")
              /\ (/\ WellFormedInt(YearGroup)
                  /\ WellFormedNat(MonthGroup)
                  /\ Magnitude(MonthGroup) \in 1..12
                  /\ ~WellFormedInt(DayGroup))
                    => IsError(result, "InvalidInt")
              /\ (WellFormedInt(YearGroup) /\ WellFormedNat(MonthGroup) /\ Magnitude(MonthGroup) \notin 1..12)
                    => IsError(result, "InvalidMonth")
              /\ (/\ WellFormedInt(YearGroup)
                  /\ ParseI32(YearGroup).tag = "Ok"
                  /\ WellFormedNat(MonthGroup)
                  /\ Magnitude(MonthGroup) \in 1..12
                  /\ WellFormedNat(DayGroup)
                  /\ ~RealDate(Ymd(ParseI32(YearGroup).v, Magnitude(MonthGroup), Magnitude(DayGroup))))
                    => IsError(result, "InvalidDate")

\* The digit string z, without leading zeros, denotes an integer of at most the one m denotes.
TextAtMost(z, m) ==
    \/ Len(z) < Len(m)
    \/ /\ Len(z) = Len(m)
       /\ \/ z = m
          \/ \E i \in 1..Len(z) :
                 /\ DigitValue(z[i]) < DigitValue(m[i])
                 /\ \A j \in 1..(i - 1) : z[j] = m[j]

\* The decimal texts of i32::MAX and of the magnitude of i32::MIN.
I32MaxText == <<"2", "1", "4", "7", "4", "8", "3", "6", "4", "7">>

I32MinText == <<"2", "1", "4", "7", "4", "8", "3", "6", "4", "8">>

\* A well-formed integer in the range of i32.
FitsI32(s) ==
    /\ WellFormedInt(s)
    /\ TextAtMost(StripZeros(Unsigned(s)), IF StartsWith(s, "-") THEN I32MinText ELSE I32MaxText)

\* A well-formed integer in the range of u8; u8 takes no '-'.
FitsU8(s) == WellFormedNat(s) /\ Magnitude(s) <= U8_MAX

\* The year a group that fits i32 denotes, years beyond four digits standing as 99999.
YearValue(s) == IF StartsWith(s, "-") THEN -Magnitude(s) ELSE Magnitude(s)

(***************************************************************************)
(* C15, amended. Date parse reports errors by cause, an integer being      *)
(* well-formed only if it fits its type (i32 for the year; u8, so unsigned *)
(* or with '+' and at most 255, for month and day), the groups taken in    *)
(* the order year, month, day: no '.' gives MissingMonthSeparator; exactly *)
(* one '.' gives MissingDaySeparator; a group that is no integer of its    *)
(* type gives InvalidInt, a month of 300 included; a month in 0..=255      *)
(* outside 1..=12 (0, 13, 30, 99) gives InvalidMonth; and with a month in  *)
(* 1..=12, a day in 0..=255 that is no day of that month and year gives    *)
(* InvalidDate.                                                            *)
(***************************************************************************)
DateErrorByWidth ==
    op = "date" =>
        /\ DotCount = 0 => result = DateErr([e |-> "MissingMonthSeparator"])
        /\ DotCount = 1 => result = DateErr([e |-> "MissingDaySeparator"])
        /\ DotCount >= 2 =>
              /\ ~FitsI32(YearGroup) => IsError(result, "InvalidInt")
              /\ (FitsI32(YearGroup) /\ ~FitsU8(MonthGroup)) => IsError(result, "InvalidInt")
              /\ (FitsI32(YearGroup) /\ FitsU8(MonthGroup) /\ Magnitude(MonthGroup) \notin 1..12)
                    => IsError(result, "InvalidMonth")
              /\ (/\ FitsI32(YearGroup)
                  /\ FitsU8(MonthGroup)
                  /\ Magnitude(MonthGroup) \in 1..12
                  /\ ~FitsU8(DayGroup))
                    => IsError(result, "InvalidInt")
              /\ (/\ FitsI32(YearGroup)
                  /\ FitsU8(MonthGroup)
                  /\ Magnitude(MonthGroup) \in 1..12
                  /\ FitsU8(DayGroup)
                  /\ Magnitude(DayGroup) \notin 1..DaysInMonth(YearValue(YearGroup), Magnitude(MonthGroup)))
                    => IsError(result, "InvalidDate")

\* A date text with the month 300 was parsed: the integer does not fit u8.
DateErrorByWidthWitness ==
    /\ op = "date"
    /\ DotCount = 2
    /\ FitsI32(YearGroup)
    /\ MonthGroup = <<"3", "0", "0">>
    /\ result = DateErr([e |-> "InvalidInt", cause |-> "PosOverflow"])

\* The receiver of the last increment is dated no later than the clock's reading.
NotAfterToday == op = "increment" /\ ~DateLess(today, self.date)

\* The receiver's changeset cannot grow: it is dated today and stands at u32::MAX.
AtCeiling == self.date = today /\ self.changeset = Some(U32_MAX)

(***************************************************************************)
(* C16, as claimed. Increment advances the version: for every Version      *)
(* dated no later than the clock's reading, whatever its changeset and     *)
(* kind, the incremented Version compares strictly greater, each step of a *)
(* chain of increments included.                                           *)
(***************************************************************************)
IncrementAdvances == NotAfterToday => VersionCmp(new, self) = "Greater"

(***************************************************************************)
(* C16, amended. Increment advances the version except at the ceiling: for *)
(* a Version dated no later than the clock's reading the incremented       *)
(* Version compares strictly greater, unless the Version is dated today    *)
(* with the changeset u32::MAX; then the result is the Version with the    *)
(* kind reset to Regular, equal to it if it is Regular and smaller if it   *)
(* is Breaking or a Feature.                                               *)
(***************************************************************************)
IncrementAdvancesBelowMax ==
    NotAfterToday =>
        IF AtCeiling
        THEN /\ new = [self EXCEPT !.kind = Regular]
             /\ VersionCmp(new, self) = (IF self.kind = Regular THEN "Equal" ELSE "Less")
        ELSE VersionCmp(new, self) = "Greater"

\* A Breaking Version at u32::MAX was incremented on its own day.
IncrementAdvancesBelowMaxWitness ==
    /\ NotAfterToday
    /\ AtCeiling
    /\ self.kind = Breaking
    /\ VersionCmp(new, self) = "Less"

====
